---- MODULE Spec2Model ----
(***************************************************************************)
(* Model of src/src/components/SortingVisualizer.js: the six sort engines  *)
(* that record their mutations as a list of moves, and the animate /       *)
(* sortAndAnimate / resetArray handlers of the React component that        *)
(* replay such a list one move per timer tick.                             *)
(*                                                                         *)
(* Numbers: Math.random() yields reals in [0,1).  The engines only compare *)
(* values with < and >, so a value is modelled by an integer rank in       *)
(* 0..MaxVal-1.  An array element is a tuple whose first component is the   *)
(* value.  In EngineSpec it is a pair <<value, origin>>; origin is the     *)
(* position the element had in the input.  The code never reads origin    *)
(* (Val is the only accessor the engines use); it makes equal values       *)
(* distinguishable for the stability property.  The component's arrays     *)
(* hold <<value>>.                                                         *)
(*                                                                         *)
(* Indices are the JavaScript 0-based indices; At(a, i) reads a[i].        *)
(***************************************************************************)
EXTENDS Integers, Sequences, FiniteSets, TLC

\* ---- bounds ----
\* longest input given to an engine in EngineSpec
MaxLen == 4
\* number of distinct values (ranks) an element can have
MaxVal == 3
\* array length of the component; scales down NUMBER_OF_ARRAY_BARS = 30 (line 9)
NUMBER_OF_ARRAY_BARS == 2
\* number of distinct values in the component's arrays
MaxBarVal == 2
\* number of sort requests in one behaviour
MaxSessions == 3
\* number of Generate New Array clicks in one behaviour
MaxResets == 1

\* ---- program constants ----
ToneBase == 200
ToneSpan == 500

VARIABLES
    \* EngineSpec: a sort engine applied to one input, and the replay of its log
    input,      \* the array handed to the engine
    engine,     \* which engine ran ("none" before)
    result,     \* [array |-> the engine's private array at return, moves |-> its log]
    replayed,   \* a copy of input to which the log is replayed
    cursor,     \* number of moves of the log replayed so far
    \* Spec: the component
    array,      \* React state `array` as seen by the latest render
    container,  \* the bars last drawn by showBars
    sessions,   \* one record per sortAndAnimate call (the closure of its animate chain)
    events,     \* the side effects of the last handler, in program order
    requested,  \* the algorithm name of the last handler, "" if it was no sort
    resets,     \* number of resetArray calls so far
    resetSinceSort, \* a resetArray call happened after the last sortAndAnimate
    generated   \* the newArray of the last init or resetArray call

engineVars == <<input, engine, result, replayed, cursor>>
compVars == <<array, container, sessions, events, requested, resets, resetSinceSort,
              generated>>
vars == <<input, engine, result, replayed, cursor,
          array, container, sessions, events, requested, resets, resetSinceSort,
          generated>>

\* ---- elements, arrays, moves ----
Val(e) == e[1]
Origin(e) == e[2]
At(a, i) == a[i + 1]
Length(a) == Len(a)

\* [array[i], array[j]] = [array[j], array[i]]
Swap(a, i, j) == [a EXCEPT ![i + 1] = a[j + 1], ![j + 1] = a[i + 1]]
\* array[i] = v
Put(a, i, v) == [a EXCEPT ![i + 1] = v]

SwapMove(i, j) == [type |-> "swap", indices |-> <<i, j>>]
OverwriteMove(i, v) == [type |-> "overwrite", indices |-> <<i>>, value |-> v]

\* History kept with a pushed move: `after` is the array the engine was
\* mutating, as it is right after the mutation the move was pushed for.  The
\* program has no such field and nothing that models the program reads it.
Stamp(m, a) ==
    IF m # <<>> /\ "after" \notin DOMAIN m[Len(m)]
    THEN [m EXCEPT ![Len(m)] = @ @@ [after |-> a]]
    ELSE m

\* the move as the program holds it
Plain(move) == [f \in DOMAIN move \ {"after"} |-> move[f]]
PlainLog(moves) == [k \in 1..Len(moves) |-> Plain(moves[k])]

\* an engine's working state: its private array and the moves pushed so far
St(a, m) == [array |-> a, moves |-> Stamp(m, a)]

\* ---- bubbleSort (lines 129-143) ----
RECURSIVE BubblePass(_, _, _)
BubblePass(st, i, swapped) ==
    IF i < Length(st.array)
    THEN IF Val(At(st.array, i - 1)) > Val(At(st.array, i))
         THEN BubblePass(St(Swap(st.array, i - 1, i),
                            Append(st.moves, SwapMove(i - 1, i))), i + 1, TRUE)
         ELSE BubblePass(st, i + 1, swapped)
    ELSE [st |-> st, swapped |-> swapped]

RECURSIVE BubbleLoop(_)
BubbleLoop(st) ==
    LET r == BubblePass(st, 1, FALSE)
    IN  IF r.swapped THEN BubbleLoop(r.st) ELSE r.st

bubbleSort(a) == BubbleLoop(St(a, <<>>))

\* ---- merge (lines 155-188) ----
RECURSIVE MergeBoth(_, _, _, _, _, _)
MergeBoth(left, right, l, r, o, st) ==
    IF l < Length(left) /\ r < Length(right)
    THEN IF Val(At(left, l)) < Val(At(right, r))
         THEN MergeBoth(left, right, l + 1, r, o + 1,
                        St(Put(st.array, o, At(left, l)),
                           Append(st.moves, OverwriteMove(o, At(left, l)))))
         ELSE MergeBoth(left, right, l, r + 1, o + 1,
                        St(Put(st.array, o, At(right, r)),
                           Append(st.moves, OverwriteMove(o, At(right, r)))))
    ELSE [l |-> l, r |-> r, o |-> o, st |-> st]

RECURSIVE MergeLeft(_, _, _, _)
MergeLeft(left, l, o, st) ==
    IF l < Length(left)
    THEN MergeLeft(left, l + 1, o + 1,
                   St(Put(st.array, o, At(left, l)),
                      Append(st.moves, OverwriteMove(o, At(left, l)))))
    ELSE [o |-> o, st |-> st]

RECURSIVE MergeRight(_, _, _, _)
MergeRight(right, r, o, st) ==
    IF r < Length(right)
    THEN MergeRight(right, r + 1, o + 1,
                    St(Put(st.array, o, At(right, r)),
                       Append(st.moves, OverwriteMove(o, At(right, r)))))
    ELSE [o |-> o, st |-> st]

merge(left, right, originalArray, moves) ==
    LET b == MergeBoth(left, right, 0, 0, 0, St(originalArray, moves))
        l == MergeLeft(left, b.l, b.o, b.st)
        r == MergeRight(right, b.r, l.o, l.st)
    IN  r.st

\* ---- mergeSort (lines 145-153) ----
RECURSIVE mergeSort(_, _)
mergeSort(a, moves) ==
    IF Length(a) <= 1
    THEN St(a, moves)
    ELSE LET mid == Length(a) \div 2
             left == mergeSort(SubSeq(a, 1, mid), moves)
             right == mergeSort(SubSeq(a, mid + 1, Length(a)), left.moves)
         IN  merge(left.array, right.array, a, right.moves)

\* heapify with the right child compared against the parent, not against the
\* larger of parent and left child
RECURSIVE heapifyRightAgainstParent(_, _, _)
heapifyRightAgainstParent(st, i, max) ==
    LET a == st.array
        left == 2 * i + 1
        right == 2 * i + 2
        l1 == IF left < max /\ Val(At(a, left)) > Val(At(a, i)) THEN left ELSE i
        largest == IF right < max /\ Val(At(a, right)) > Val(At(a, i)) THEN right ELSE l1
    IN  IF largest # i
        THEN heapifyRightAgainstParent(
                 St(Swap(a, i, largest), Append(st.moves, SwapMove(i, largest))),
                 largest, max)
        ELSE st

\* heapify taking the right child when it is equal to the larger so far
RECURSIVE heapifyRightOnTie(_, _, _)
heapifyRightOnTie(st, i, max) ==
    LET a == st.array
        left == 2 * i + 1
        right == 2 * i + 2
        l1 == IF left < max /\ Val(At(a, left)) > Val(At(a, i)) THEN left ELSE i
        largest == IF right < max /\ l1 # i /\ Val(At(a, right)) >= Val(At(a, l1))
                   THEN right
                   ELSE IF right < max /\ Val(At(a, right)) > Val(At(a, l1))
                        THEN right ELSE l1
    IN  IF largest # i
        THEN heapifyRightOnTie(
                 St(Swap(a, i, largest), Append(st.moves, SwapMove(i, largest))),
                 largest, max)
        ELSE st

\* ---- heapify (lines 207-225) ----
RECURSIVE heapify(_, _, _)
heapify(st, i, max) ==
    LET a == st.array
        left == 2 * i + 1
        right == 2 * i + 2
        l1 == IF left < max /\ Val(At(a, left)) > Val(At(a, i)) THEN left ELSE i
        largest == IF right < max /\ Val(At(a, right)) > Val(At(a, l1)) THEN right ELSE l1
    IN  IF largest # i
        THEN heapify(St(Swap(a, i, largest), Append(st.moves, SwapMove(i, largest))),
                     largest, max)
        ELSE st

\* ---- buildMaxHeap (lines 201-205) ----
RECURSIVE BuildLoop(_, _)
BuildLoop(st, i) ==
    IF i >= 0 THEN BuildLoop(heapify(st, i, Length(st.array)), i - 1) ELSE st

buildMaxHeap(st) == BuildLoop(st, (Length(st.array) \div 2) - 1)

\* ---- heapSort (lines 190-199) ----
RECURSIVE HeapLoop(_, _)
HeapLoop(st, end) ==
    IF end > 0
    THEN HeapLoop(heapify(St(Swap(st.array, 0, end), Append(st.moves, SwapMove(0, end))),
                          0, end),
                  end - 1)
    ELSE st

heapSort(a) ==
    LET built == buildMaxHeap(St(a, <<>>))
    IN  HeapLoop(built, Length(a) - 1)

\* the loop of partition comparing with <= instead of <
RECURSIVE PartitionLoopLessOrEqual(_, _, _, _, _)
PartitionLoopLessOrEqual(st, pivot, i, j, high) ==
    IF j < high
    THEN IF Val(At(st.array, j)) <= Val(pivot)
         THEN PartitionLoopLessOrEqual(St(Swap(st.array, i + 1, j),
                                          Append(st.moves, SwapMove(i + 1, j))),
                                       pivot, i + 1, j + 1, high)
         ELSE PartitionLoopLessOrEqual(st, pivot, i, j + 1, high)
    ELSE [st |-> st, i |-> i]

\* ---- partition (lines 241-254) ----
RECURSIVE PartitionLoop(_, _, _, _, _)
PartitionLoop(st, pivot, i, j, high) ==
    IF j < high
    THEN IF Val(At(st.array, j)) < Val(pivot)
         THEN PartitionLoop(St(Swap(st.array, i + 1, j),
                               Append(st.moves, SwapMove(i + 1, j))),
                            pivot, i + 1, j + 1, high)
         ELSE PartitionLoop(st, pivot, i, j + 1, high)
    ELSE [st |-> st, i |-> i]

partition(st, low, high) ==
    LET pivot == At(st.array, high)
        p == PartitionLoop(st, pivot, low - 1, low, high)
    IN  [st |-> St(Swap(p.st.array, p.i + 1, high),
                   Append(p.st.moves, SwapMove(p.i + 1, high))),
         pivotIndex |-> p.i + 1]

\* ---- quickSortHelper (lines 233-239) ----
RECURSIVE quickSortHelper(_, _, _)
quickSortHelper(st, low, high) ==
    IF low < high
    THEN LET p == partition(st, low, high)
             lo == quickSortHelper(p.st, low, p.pivotIndex - 1)
         IN  quickSortHelper(lo, p.pivotIndex + 1, high)
    ELSE st

\* ---- quickSort (lines 227-231) ----
quickSort(a) == quickSortHelper(St(a, <<>>), 0, Length(a) - 1)

\* ---- insertionSort (lines 256-270) ----
\* the inner scan of insertionSort with the overwrite pushed inside the loop
RECURSIVE InsertionInnerOverwriteEachShift(_, _, _)
InsertionInnerOverwriteEachShift(st, key, j) ==
    IF j >= 0 /\ Val(At(st.array, j)) > Val(key)
    THEN InsertionInnerOverwriteEachShift(
             St(Put(st.array, j + 1, At(st.array, j)),
                Append(Append(st.moves, SwapMove(j + 1, j)), OverwriteMove(j, key))),
             key, j - 1)
    ELSE [st |-> st, j |-> j]

\* the inner scan of insertionSort recording each shift as what it is, an
\* overwrite of position j + 1 by the element at j
RECURSIVE InsertionInnerRecordsShift(_, _, _)
InsertionInnerRecordsShift(st, key, j) ==
    IF j >= 0 /\ Val(At(st.array, j)) > Val(key)
    THEN InsertionInnerRecordsShift(
             St(Put(st.array, j + 1, At(st.array, j)),
                Append(st.moves, OverwriteMove(j + 1, At(st.array, j)))),
             key, j - 1)
    ELSE [st |-> st, j |-> j]

RECURSIVE InsertionInner(_, _, _)
InsertionInner(st, key, j) ==
    IF j >= 0 /\ Val(At(st.array, j)) > Val(key)
    THEN InsertionInner(St(Put(st.array, j + 1, At(st.array, j)),
                           Append(st.moves, SwapMove(j + 1, j))),
                        key, j - 1)
    ELSE [st |-> st, j |-> j]

\* the outer loop of insertionSort pushing the overwrite with index j, not j + 1
RECURSIVE InsertionOuterOverwriteAtJ(_, _)
InsertionOuterOverwriteAtJ(st, i) ==
    IF i < Length(st.array)
    THEN LET key == At(st.array, i)
             w == InsertionInner(st, key, i - 1)
         IN  InsertionOuterOverwriteAtJ(St(Put(w.st.array, w.j + 1, key),
                                           Append(w.st.moves, OverwriteMove(w.j, key))),
                                        i + 1)
    ELSE st

RECURSIVE InsertionOuter(_, _)
InsertionOuter(st, i) ==
    IF i < Length(st.array)
    THEN LET key == At(st.array, i)
             w == InsertionInner(st, key, i - 1)
         IN  InsertionOuter(St(Put(w.st.array, w.j + 1, key),
                               Append(w.st.moves, OverwriteMove(w.j + 1, key))),
                            i + 1)
    ELSE st

\* insertionSort whose outer loop starts at i = 0
insertionSortFromZero(a) == InsertionOuter(St(a, <<>>), 0)

insertionSort(a) == InsertionOuter(St(a, <<>>), 1)

\* ---- selectionSort (lines 272-287) ----
RECURSIVE SelectionScan(_, _, _)
SelectionScan(a, minIndex, j) ==
    IF j < Length(a)
    THEN IF Val(At(a, j)) < Val(At(a, minIndex))
         THEN SelectionScan(a, j, j + 1)
         ELSE SelectionScan(a, minIndex, j + 1)
    ELSE minIndex

RECURSIVE SelectionOuter(_, _)
SelectionOuter(st, i) ==
    IF i < Length(st.array) - 1
    THEN LET minIndex == SelectionScan(st.array, i, i + 1)
         IN  IF minIndex # i
             THEN SelectionOuter(St(Swap(st.array, i, minIndex),
                                    Append(st.moves, SwapMove(i, minIndex))), i + 1)
             ELSE SelectionOuter(st, i + 1)
    ELSE st

selectionSort(a) == SelectionOuter(St(a, <<>>), 0)

\* ---- one step of the replay: the mutation animate performs (lines 78-84) ----
ApplyMove(a, move) ==
    IF move.type = "swap"
    THEN Swap(a, move.indices[1], move.indices[2])
    ELSE IF move.type = "overwrite"
         THEN Put(a, move.indices[1], move.value)
         ELSE a

\* ---- arrays the model draws from ----
\* tag a sequence of values with the positions they are generated at
Tagged(vs) == [k \in 1..Len(vs) |-> <<vs[k], k - 1>>]

\* Array.from({ length: n }, () => Math.random()) (lines 24, 35)
RandomArrays(n, nvals) == {Tagged(vs) : vs \in [1..n -> 0..(nvals - 1)]}

Inputs == UNION {RandomArrays(n, MaxVal) : n \in 0..MaxLen}

NoResult == St(<<>>, <<>>)

\* ======================= EngineSpec =======================
\* One engine is applied to one input, then its log is replayed move by move
\* against a copy of that input.
EngineInit ==
    /\ input \in Inputs
    /\ engine = "none"
    /\ result = NoResult
    /\ replayed = input
    /\ cursor = 0
    /\ array = <<>>
    /\ container = <<>>
    /\ sessions = <<>>
    /\ events = <<>>
    /\ requested = ""
    /\ resets = 0
    /\ resetSinceSort = FALSE
    /\ generated = <<>>

Ran(name, r) ==
    /\ engine = "none"
    /\ engine' = name
    /\ result' = r
    /\ UNCHANGED <<input, replayed, cursor>>
    /\ UNCHANGED compVars

RunBubbleSort == Ran("bubble", bubbleSort(input))
RunMergeSort == Ran("merge", mergeSort(input, <<>>))
RunHeapSort == Ran("heap", heapSort(input))
RunQuickSort == Ran("quick", quickSort(input))
RunInsertionSort == Ran("insertion", insertionSort(input))
RunSelectionSort == Ran("selection", selectionSort(input))

ReplayMove ==
    /\ engine # "none"
    /\ cursor < Len(result.moves)
    /\ replayed' = ApplyMove(replayed, result.moves[cursor + 1])
    /\ cursor' = cursor + 1
    /\ UNCHANGED <<input, engine, result>>
    /\ UNCHANGED compVars

EngineNext ==
    \/ RunBubbleSort
    \/ RunMergeSort
    \/ RunHeapSort
    \/ RunQuickSort
    \/ RunInsertionSort
    \/ RunSelectionSort
    \/ ReplayMove

EngineSpec == EngineInit /\ [][EngineNext]_vars

\* ---- helpers of the properties ----
IsSorted(a) == \A k \in 1..(Len(a) - 1) : Val(a[k]) <= Val(a[k + 1])
Count(a, v) == Cardinality({k \in 1..Len(a) : Val(a[k]) = v})
SameValues(a, b) == \A v \in 0..(MaxVal - 1) : Count(a, v) = Count(b, v)
NumMoves(moves, t) == Cardinality({k \in 1..Len(moves) : moves[k].type = t})
ReplayDone == engine # "none" /\ cursor = Len(result.moves)
HasInversion(a) == \E k \in 1..(Len(a) - 1) : Val(a[k]) > Val(a[k + 1])

\* C1: for each of the six engines and every input, replaying the whole log
\* against a copy of the input gives an array of the same length that is
\* non-decreasing and has the same multiset of values as the input.
C1_ReplaySorts ==
    ReplayDone =>
        /\ Len(replayed) = Len(input)
        /\ IsSorted(replayed)
        /\ SameValues(replayed, input)

C1_Witness ==
    /\ ReplayDone
    /\ engine = "merge"
    /\ Len(input) = MaxLen
    /\ HasInversion(input)
    /\ cursor > 0

\* C4 (as claimed): merge sort is stable, elements of equal value keep their
\* input order in the final sequence.
C4_MergeStable ==
    (ReplayDone /\ engine = "merge") =>
        \A p, q \in 1..Len(replayed) :
            (p < q /\ Val(replayed[p]) = Val(replayed[q]))
                => Origin(replayed[p]) < Origin(replayed[q])

\* C5: an input of length 0 or 1 gives an empty log, for every engine.
C5_ShortInputEmptyLog ==
    (engine # "none" /\ Len(input) <= 1) => result.moves = <<>>

C5_Witness == engine = "insertion" /\ Len(input) = 1

\* C6: bubble and selection logs hold at most n(n-1)/2 swaps and no
\* overwrite; the insertion log holds at most n overwrites and at most
\* n(n-1)/2 swaps.
C6_MoveCountBounds ==
    LET n == Len(input)
        half == (n * (n - 1)) \div 2
    IN  /\ engine \in {"bubble", "selection"} =>
            /\ NumMoves(result.moves, "swap") <= half
            /\ NumMoves(result.moves, "overwrite") = 0
        /\ engine = "insertion" =>
            /\ NumMoves(result.moves, "overwrite") <= n
            /\ NumMoves(result.moves, "swap") <= half

C6_Witness ==
    /\ engine = "insertion"
    /\ Len(input) >= 3
    /\ NumMoves(result.moves, "swap") = (Len(input) * (Len(input) - 1)) \div 2
    /\ NumMoves(result.moves, "overwrite") = Len(input) - 1

\* ======================= Spec: the component =======================
\* Init is the component after mount: the effect of lines 30-32 has run init()
\* and React has re-rendered, so the handlers see the generated array; the
\* effect of lines 12-20 has set audioCtx, so playNote never takes its early
\* return (a session with a move to play needs a non-empty array, which only the
\* renders after mount have).  A state update (setArray) is taken to be
\* rendered before the next handler runs, so `array` is both the state and
\* what the next handler's closure sees.
Algorithms == {"bubble", "merge", "heap", "quick", "insertion", "selection"}
AlgorithmNames == Algorithms \cup {"unknown"}

\* the component's numbers carry no origin: equal values are the same element
Untagged(vs) == [k \in 1..Len(vs) |-> <<vs[k]>>]

Bars == {Untagged(vs) : vs \in [1..NUMBER_OF_ARRAY_BARS -> 0..(MaxBarVal - 1)]}

Event(op, arg) == [op |-> op, arg |-> arg]

\* showBars (lines 40-51): the container shows one bar per element
showBars(arrayToShow) == Event("showBars", arrayToShow)

\* playNote (lines 54-69)
playNote(freq) == Event("playNote", freq)

\* the switch with a default branch that falls into an engine
SortingMovesDefaultSorts(algorithm, copy) ==
    CASE algorithm = "merge" -> mergeSort(copy, <<>>).moves
      [] algorithm = "heap" -> heapSort(copy).moves
      [] algorithm = "quick" -> quickSort(copy).moves
      [] algorithm = "insertion" -> insertionSort(copy).moves
      [] algorithm = "selection" -> selectionSort(copy).moves
      [] OTHER -> bubbleSort(copy).moves

\* the switch of sortAndAnimate (lines 101-124), run on the copy
SortingMoves(algorithm, copy) ==
    CASE algorithm = "bubble" -> bubbleSort(copy).moves
      [] algorithm = "merge" -> mergeSort(copy, <<>>).moves
      [] algorithm = "heap" -> heapSort(copy).moves
      [] algorithm = "quick" -> quickSort(copy).moves
      [] algorithm = "insertion" -> insertionSort(copy).moves
      [] algorithm = "selection" -> selectionSort(copy).moves
      [] OTHER -> <<>>

\* the effects of a step with showBars moved in front of the playNote calls
StepEventsRenderFirst(a, move) ==
    <<Event("setArray", a), showBars(a),
      playNote(ToneBase + Val(At(a, move.indices[1])) * ToneSpan)>>
    \o (IF move.type = "swap"
        THEN <<playNote(ToneBase + Val(At(a, move.indices[2])) * ToneSpan)>>
        ELSE <<>>)

\* the effects of one animate step that has a move, in program order (lines 86-92)
StepEvents(a, move) ==
    <<Event("setArray", a),
      playNote(ToneBase + Val(At(a, move.indices[1])) * ToneSpan)>>
    \o (IF move.type = "swap"
        THEN <<playNote(ToneBase + Val(At(a, move.indices[2])) * ToneSpan)>>
        ELSE <<>>)
    \o <<showBars(a)>>

\* animate that stops as soon as it has applied the last move: no timer is set
\* when the list is empty after the shift, so the final showBars never runs
animateStopAfterLastMove(sess) ==
    IF Len(sess.moves) = 0
    THEN [session |-> [sess EXCEPT !.publishes = @ + 1],
          setArray |-> FALSE,
          events |-> <<showBars(sess.array)>>]
    ELSE LET move == Head(sess.moves)
             a == ApplyMove(sess.array, move)
         IN  [session |-> [sess EXCEPT !.moves = Tail(@),
                                       !.array = a,
                                       !.applied = @ + 1,
                                       !.pending = IF Len(sess.moves) = 1 THEN @ ELSE @ + 1],
              setArray |-> TRUE,
              events |-> StepEvents(a, move)]

\* animate that sets a timer in the swap branch and again at the end
animateTimerPerBranch(sess) ==
    IF Len(sess.moves) = 0
    THEN [session |-> [sess EXCEPT !.publishes = @ + 1],
          setArray |-> FALSE,
          events |-> <<showBars(sess.array)>>]
    ELSE LET move == Head(sess.moves)
             a == ApplyMove(sess.array, move)
         IN  [session |-> [sess EXCEPT !.moves = Tail(@),
                                       !.array = a,
                                       !.applied = @ + 1,
                                       !.pending = IF move.type = "swap" THEN @ + 2 ELSE @ + 1],
              setArray |-> TRUE,
              events |-> StepEvents(a, move)]

\* animate that takes the move from the end of the list (pop for shift)
animateTakesLast(sess) ==
    IF Len(sess.moves) = 0
    THEN [session |-> [sess EXCEPT !.publishes = @ + 1],
          setArray |-> FALSE,
          events |-> <<showBars(sess.array)>>]
    ELSE LET move == sess.moves[Len(sess.moves)]
             a == ApplyMove(sess.array, move)
         IN  [session |-> [sess EXCEPT !.moves = SubSeq(@, 1, Len(@) - 1),
                                       !.array = a,
                                       !.applied = @ + 1,
                                       !.pending = @ + 1],
              setArray |-> TRUE,
              events |-> StepEvents(a, move)]

\* animate (lines 72-96) run by the closure chain `sess`: sess.array is the
\* `array` of the render that started the chain, sess.moves the list it shifts.
animate(sess) ==
    IF Len(sess.moves) = 0
    THEN [session |-> [sess EXCEPT !.publishes = @ + 1],
          setArray |-> FALSE,
          events |-> <<showBars(sess.array)>>]
    ELSE LET move == Head(sess.moves)
             a == ApplyMove(sess.array, move)
         IN  [session |-> [sess EXCEPT !.moves = Tail(@),
                                       !.array = a,
                                       !.applied = @ + 1,
                                       !.pending = @ + 1],
              setArray |-> TRUE,
              events |-> StepEvents(a, move)]

\* what a handler that ran animate leaves behind
Ran2(r, ss) ==
    /\ sessions' = ss
    /\ array' = IF r.setArray THEN r.session.array ELSE array
    /\ container' = r.session.array
    /\ events' = r.events

Init ==
    /\ array \in Bars
    /\ container = array
    /\ sessions = <<>>
    /\ events = <<Event("setArray", array), showBars(array)>>
    /\ requested = ""
    /\ resets = 0
    /\ resetSinceSort = FALSE
    /\ generated = array
    /\ input = <<>>
    /\ engine = "none"
    /\ result = NoResult
    /\ replayed = <<>>
    /\ cursor = 0

\* resetArray that also drops the pending tick of every playback
resetArrayCancels ==
    /\ resets < MaxResets
    /\ \E newArray \in Bars :
        /\ array' = newArray
        /\ container' = newArray
        /\ events' = <<Event("setArray", newArray), showBars(newArray)>>
        /\ generated' = newArray
    /\ requested' = ""
    /\ resets' = resets + 1
    /\ resetSinceSort' = TRUE
    /\ sessions' = [s \in 1..Len(sessions) |-> [sessions[s] EXCEPT !.pending = 0]]
    /\ UNCHANGED engineVars

\* resetArray (lines 34-38)
resetArray ==
    /\ resets < MaxResets
    /\ \E newArray \in Bars :
        /\ array' = newArray
        /\ container' = newArray
        /\ events' = <<Event("setArray", newArray), showBars(newArray)>>
        /\ generated' = newArray
    /\ requested' = ""
    /\ resets' = resets + 1
    /\ resetSinceSort' = TRUE
    /\ UNCHANGED sessions
    /\ UNCHANGED engineVars

\* the array an engine leaves behind when it is run on `a` itself
SortedInPlace(algorithm, a) ==
    CASE algorithm = "bubble" -> bubbleSort(a).array
      [] algorithm = "merge" -> mergeSort(a, <<>>).array
      [] algorithm = "heap" -> heapSort(a).array
      [] algorithm = "quick" -> quickSort(a).array
      [] algorithm = "insertion" -> insertionSort(a).array
      [] algorithm = "selection" -> selectionSort(a).array
      [] OTHER -> a

\* sortAndAnimate with copy = array (no spread): the engine sorts the live
\* array, and animate then replays the log against the sorted array
sortAndAnimateNoCopy(algorithm) ==
    /\ Len(sessions) < MaxSessions
    /\ LET sortingMoves == SortingMoves(algorithm, array)
           live == SortedInPlace(algorithm, array)
           sess == [input |-> array,
                    seed |-> live,
                    log |-> sortingMoves,
                    moves |-> sortingMoves,
                    array |-> live,
                    applied |-> 0,
                    pending |-> 0,
                    publishes |-> 0]
           r == animate(sess)
       IN  /\ Ran2(r, Append(sessions, r.session))
           /\ requested' = algorithm
    /\ resetSinceSort' = FALSE
    /\ UNCHANGED <<resets, generated>>
    /\ UNCHANGED engineVars

\* sortAndAnimate (lines 99-126)
sortAndAnimate(algorithm) ==
    /\ Len(sessions) < MaxSessions
    /\ LET copy == array
           sortingMoves == SortingMoves(algorithm, copy)
           sess == [input |-> copy,
                    seed |-> array,
                    log |-> sortingMoves,
                    moves |-> sortingMoves,
                    array |-> array,
                    applied |-> 0,
                    pending |-> 0,
                    publishes |-> 0]
           r == animate(sess)
       IN  /\ Ran2(r, Append(sessions, r.session))
           /\ requested' = algorithm
    /\ resetSinceSort' = FALSE
    /\ UNCHANGED <<resets, generated>>
    /\ UNCHANGED engineVars

\* the callback of setTimeout (lines 93-95) of session s fires
Tick(s) ==
    /\ sessions[s].pending > 0
    /\ LET r == animate([sessions[s] EXCEPT !.pending = @ - 1])
       IN  Ran2(r, [sessions EXCEPT ![s] = r.session])
    /\ requested' = ""
    /\ UNCHANGED <<resets, resetSinceSort, generated>>
    /\ UNCHANGED engineVars

Next ==
    \/ resetArray
    \/ \E algorithm \in AlgorithmNames : sortAndAnimate(algorithm)
    \/ \E s \in 1..Len(sessions) : Tick(s)

Spec == Init /\ [][Next]_vars

\* the timer of every scheduled tick eventually fires
FairSpec == Spec /\ \A s \in 1..MaxSessions : WF_vars(s <= Len(sessions) /\ Tick(s))

\* ---- helpers of the component's properties ----
\* the array after the first k moves of log are applied to a, in log order
RECURSIVE ReplayPrefix(_, _, _)
ReplayPrefix(log, a, k) ==
    IF k = 0 THEN a ELSE ApplyMove(ReplayPrefix(log, a, k - 1), log[k])

SortRequested == requested' # "" /\ Len(sessions') = Len(sessions) + 1
Newest == sessions'[Len(sessions')]
Latest == sessions[Len(sessions)]
Finished(x) == x.pending = 0 /\ x.applied = Len(x.log) /\ x.publishes = 1
HasOp(evs, op) == \E k \in 1..Len(evs) : evs[k].op = op

\* C2 (as claimed): once a later sort has been requested, no further move of
\* an earlier playback is applied.
C2_StalePlaybackCancelled ==
    [][\A s \in 1..Len(sessions) :
          s < Len(sessions) => sessions'[s].applied = sessions[s].applied]_vars

\* C3 (as claimed): a request with an unknown algorithm name raises
\* InvalidAlgorithm, renders nothing, schedules no tick and leaves the array
\* state unchanged.
C3_UnknownAlgorithmRejected ==
    [][(SortRequested /\ requested' \notin Algorithms) =>
          /\ HasOp(events', "throw InvalidAlgorithm")
          /\ ~HasOp(events', "showBars")
          /\ Newest.pending = 0
          /\ array' = array]_vars

\* C3 (amended): a request with an unknown algorithm name raises nothing; no
\* engine runs and the log is empty, so animate only renders the unchanged
\* array once, sets no timer and leaves the array state unchanged.
C3_UnknownAlgorithmIgnored ==
    [][(SortRequested /\ requested' \notin Algorithms) =>
          /\ Newest.log = <<>>
          /\ events' = <<showBars(array)>>
          /\ Newest.pending = 0
          /\ array' = array
          /\ container' = array]_vars

C3_Witness ==
    /\ requested = "unknown"
    /\ HasInversion(array)
    /\ events = <<showBars(array)>>
    /\ sessions[Len(sessions)].log = <<>>

\* C7 (as claimed): a sort requested while the latest playback has applied k
\* of its m moves (0 < k < m, no new array generated since) gets, as engine
\* input and as first snapshot, the array after that playback's first k moves.
C7_SeedIsStateAfterKMoves ==
    [][(/\ SortRequested
        /\ Len(sessions) >= 1
        /\ ~resetSinceSort
        /\ Latest.applied < Len(Latest.log)) =>
          LET snap == ReplayPrefix(Latest.log, Latest.seed, Latest.applied)
          IN  Newest.input = snap /\ Newest.seed = snap]_vars

\* C8: every playback applies the moves of its log one per tick and in log
\* order; the tick that finds the list empty publishes the array once more and
\* sets no timer; under fair timers every playback reaches that end.
C8_Shape(x) ==
    /\ x.moves = SubSeq(x.log, x.applied + 1, Len(x.log))
    /\ x.array = ReplayPrefix(x.log, x.seed, x.applied)
    /\ x.pending > 0 => x.publishes = 0
    /\ x.pending = 0 => Finished(x)

C8_PlaybackTerminates ==
    /\ [](\A s \in 1..Len(sessions) : C8_Shape(sessions[s]))
    /\ [][\A s \in 1..Len(sessions) :
            sessions'[s].applied \in {sessions[s].applied, sessions[s].applied + 1}]_vars
    /\ \A s \in 1..MaxSessions :
            [](s <= Len(sessions) => <>(s <= Len(sessions) /\ Finished(sessions[s])))

C8_Witness ==
    /\ Len(sessions) = 1
    /\ resets = 0
    /\ Len(sessions[1].log) >= 2
    /\ Finished(sessions[1])
    /\ container = ReplayPrefix(sessions[1].log, sessions[1].seed, Len(sessions[1].log))

Before(moves, a, k) == IF k = 1 THEN a ELSE moves[k - 1].after

\* C11: every index of every move of every engine's log lies in 0..n-1, n
\* the length of the input.
C11_IndicesInBounds ==
    engine # "none" =>
        \A k \in 1..Len(result.moves) :
            \A x \in 1..Len(result.moves[k].indices) :
                /\ result.moves[k].indices[x] >= 0
                /\ result.moves[k].indices[x] < Len(input)

C11_Witness ==
    /\ engine = "quick"
    /\ Len(input) = MaxLen
    /\ \E k \in 1..Len(result.moves) :
            result.moves[k].indices = <<0, MaxLen - 1>>

\* C12 (as claimed): after k moves of the log are replayed against the
\* input, the replayed array is the array the engine was mutating, as it was
\* right after its k-th mutation.
C12_LogIsChronologicalRecord ==
    (engine # "none" /\ cursor > 0) => replayed = result.moves[cursor].after

\* The log a merge sort of the sub-range [lo, hi) of the input has to push
\* from position pos of moves on: the log of [lo, mid), the log of [mid, hi),
\* then one overwrite for each of the positions lo, lo + 1, .., hi - 1.
\* Gives the position after that log, or -1 if moves does not have this shape.
RECURSIVE MergeRangeEnd(_, _, _, _)
MergeRangeEnd(moves, pos, lo, hi) ==
    IF hi - lo <= 1
    THEN pos
    ELSE LET mid == lo + ((hi - lo) \div 2)
             l == MergeRangeEnd(moves, pos, lo, mid)
             r == IF l < 0 THEN -1 ELSE MergeRangeEnd(moves, l, mid, hi)
         IN  IF r < 0 \/ r + (hi - lo) - 1 > Len(moves)
             THEN -1
             ELSE IF \A d \in 0..(hi - lo - 1) :
                        /\ moves[r + d].type = "overwrite"
                        /\ moves[r + d].indices = <<lo + d>>
                  THEN r + (hi - lo)
                  ELSE -1

\* C13 (as claimed): the overwrites pushed while merging the halves of the
\* sub-range [lo, hi) of the input have their indices in [lo, hi), one for
\* each position of the sub-range.
C13_MergeWritesOriginalRange ==
    engine = "merge" =>
        MergeRangeEnd(result.moves, 1, 0, Len(input)) = Len(result.moves) + 1

C15_EngineRunsOnCopy ==
    [][SortRequested =>
          /\ Newest.input = array
          /\ Newest.seed = array
          /\ Newest.array = ReplayPrefix(Newest.log, array, Newest.applied)]_vars

C15_Witness ==
    /\ requested \in Algorithms
    /\ LET x == sessions[Len(sessions)]
       IN  /\ HasInversion(x.seed)
           /\ x.input = x.seed
           /\ x.applied = 1
           /\ x.array = ApplyMove(x.seed, x.log[1])
           /\ x.array # x.seed

\* The log a Lomuto quick sort of the sub-range [low, high] has to push from
\* position pos of moves on, a being the input the log is replayed against:
\* one Swap(low + d, j) for the d-th (from 0) position j of [low, high) whose
\* value is below the pivot (the value at high), in increasing j; then
\* Swap(p, high) with p = low + the number of such positions, after which
\* [low, p) is below the pivot and (p, high] is not; then the log of
\* [low, p - 1], then the log of [p + 1, high].
\* Gives the position after that log, or -1 if moves does not have this shape.
RECURSIVE LomutoLogEnd(_, _, _, _, _)
LomutoLogEnd(moves, a, pos, low, high) ==
    IF low >= high
    THEN pos
    ELSE LET a0 == ReplayPrefix(moves, a, pos - 1)
             pivot == At(a0, high)
             J == {j \in low..(high - 1) : Val(At(a0, j)) < Val(pivot)}
             Rank(j) == Cardinality({x \in J : x < j})
             p == low + Cardinality(J)
             last == pos + Cardinality(J)
         IN  IF last > Len(moves)
             THEN -1
             ELSE IF /\ \A j \in J :
                           Plain(moves[pos + Rank(j)]) = SwapMove(low + Rank(j), j)
                     /\ Plain(moves[last]) = SwapMove(p, high)
                     /\ LET a1 == ReplayPrefix(moves, a, last)
                        IN  /\ \A x \in low..(p - 1) : Val(At(a1, x)) < Val(pivot)
                            /\ At(a1, p) = pivot
                            /\ \A x \in (p + 1)..high : Val(At(a1, x)) >= Val(pivot)
                  THEN LET l == LomutoLogEnd(moves, a, last + 1, low, p - 1)
                       IN  IF l < 0 THEN -1
                           ELSE LomutoLogEnd(moves, a, l, p + 1, high)
                  ELSE -1

\* the values of an array, without origins
Values(a) == [k \in 1..Len(a) |-> Val(a[k])]

\* C16: the log of quickSort is that of Lomuto partitioning with the last
\* element as pivot, low partition first; an input ordered like [3, 1, 2]
\* gives exactly [Swap(0,1), Swap(1,2)].
C16_QuickIsLomuto ==
    engine = "quick" =>
        /\ LomutoLogEnd(result.moves, input, 1, 0, Len(input) - 1)
                = Len(result.moves) + 1
        /\ Values(input) = <<2, 0, 1>> =>
                PlainLog(result.moves) = <<SwapMove(0, 1), SwapMove(1, 2)>>

C16_Witness ==
    /\ engine = "quick"
    /\ Values(input) = <<2, 0, 1>>
    /\ PlainLog(result.moves) = <<SwapMove(0, 1), SwapMove(1, 2)>>

\* node i of the heap a[0..max) has both children inside the heap, equal to
\* each other and greater than the node
TiedChildren(a, i, max) ==
    /\ 2 * i + 2 < max
    /\ Val(At(a, 2 * i + 1)) = Val(At(a, 2 * i + 2))
    /\ Val(At(a, 2 * i + 1)) > Val(At(a, i))

\* C17: when the children of a node are both inside the heap, equal and
\* greater than the node, heapify swaps the node with the left child: no move
\* of a heap sort log swaps such a node with its right child, and heapify
\* called on such a node of the input pushes Swap(i, 2i+1) first.
C17_HeapifyPrefersLeft ==
    engine = "heap" =>
        /\ \A k \in 1..Len(result.moves) :
              LET i == result.moves[k].indices[1]
                  b == Before(result.moves, input, k)
              IN  ~ /\ result.moves[k].indices[2] = 2 * i + 2
                    /\ TiedChildren(b, i, Len(input))
        /\ \A i \in 0..(Len(input) - 1) : \A max \in 0..Len(input) :
              TiedChildren(input, i, max) =>
                  Plain(heapify(St(input, <<>>), i, max).moves[1])
                      = SwapMove(i, 2 * i + 1)

C17_Witness ==
    /\ engine = "heap"
    /\ Len(input) = MaxLen
    /\ TiedChildren(input, 0, Len(input))
    /\ Plain(result.moves[1]) = SwapMove(0, 1)

\* C18: in the replay of an insertion sort log every Overwrite finds its
\* target position already holding the element it writes, so applying it
\* leaves the replayed array as it is; and the log of an input of length n has
\* one Overwrite per i in 1..n-1 (none when n <= 1).
C18_InsertionOverwritesAreNoOps ==
    engine = "insertion" =>
        /\ NumMoves(result.moves, "overwrite")
               = (IF Len(input) = 0 THEN 0 ELSE Len(input) - 1)
        /\ cursor < Len(result.moves) =>
               LET move == result.moves[cursor + 1]
               IN  move.type = "overwrite" =>
                       /\ At(replayed, move.indices[1]) = move.value
                       /\ ApplyMove(replayed, move) = replayed

\* an Overwrite has just been replayed after the Swaps that moved its key
C18_Witness ==
    /\ engine = "insertion"
    /\ Len(input) = MaxLen
    /\ cursor > 1
    /\ result.moves[cursor].type = "overwrite"
    /\ result.moves[cursor - 1].type = "swap"
    /\ replayed # input

\* session s has run a tick in this step
Ticked(s) == s <= Len(sessions) /\ sessions'[s] # sessions[s]

\* C19: resetArray leaves every playback as it is, pending tick included;
\* every tick a playback runs afterwards draws that playback's own array (the
\* old array with the moves applied so far), and publishes it as the array
\* state when it applies a move; and a playback that has a tick pending when
\* the new array is on screen still runs to the end of its log.
C19_ResetDoesNotCancelPlayback ==
    /\ [][/\ resets' # resets => sessions' = sessions
          /\ \A s \in 1..MaxSessions :
                (resetSinceSort /\ Ticked(s)) =>
                    LET old == ReplayPrefix(sessions[s].log, sessions[s].seed,
                                            sessions'[s].applied)
                    IN  /\ sessions'[s].array = old
                        /\ container' = old
                        /\ sessions'[s].applied # sessions[s].applied =>
                               array' = old]_vars
    /\ \A s \in 1..MaxSessions :
          [](s <= Len(sessions) /\ resetSinceSort /\ sessions[s].pending > 0
                => <>(s <= Len(sessions) /\ Finished(sessions[s])))

\* a single playback has ended after a reset that found it with moves left:
\* the array state and the bars are the old array's final state, which is not
\* the array resetArray generated
C19_Witness ==
    /\ Len(sessions) = 1
    /\ resetSinceSort
    /\ Finished(Latest)
    /\ Len(Latest.log) > 0
    /\ array = ReplayPrefix(Latest.log, Latest.seed, Len(Latest.log))
    /\ container = array
    /\ array # generated

====
